---- MODULE Spec2Model ----
(***************************************************************************)
(* The example notebooks of the repository, executed cell by cell.         *)
(*                                                                         *)
(* A notebook file is a sequence of top-level chunks (JSON objects and     *)
(* white space).  A notebook is the ordered list of the statements of its  *)
(* code cells.  The statements call the simulation framework: they build   *)
(* graph elements, build and run a Simulator, and read probe data to plot  *)
(* it.  The matrix-multiplication notebook also builds three transform     *)
(* matrices with index arithmetic, and the controlled oscillator defines a *)
(* feedback function.  Ensembles are idealised: an ensemble passes its     *)
(* input through exactly.                                                  *)
(*                                                                         *)
(* Numbers are integers over a denominator: matrix entries are multiples   *)
(* of 1/unit, products multiples of 1/unit^2, and the feedback output is   *)
(* a multiple of 1/TauDen.                                                 *)
(***************************************************************************)
EXTENDS Integers, Sequences, FiniteSets

VARIABLES
    file,        \* the notebook file being read
    pos,         \* json decoder: index of the next top-level chunk
    parse,       \* json decoder: "start", "decoded", "ok", "extra_data"
    nb,          \* the notebook (top-level document) being executed
    pc,          \* index of the next statement of the notebook
    err,         \* "none", or the exception that stopped the notebook
    unit,        \* denominator of the entries of Amat and Bmat
    Amat, Bmat,  \* the operand matrices (matrix-multiplication notebook)
    elements,    \* the graph elements the model holds
    probes,      \* the probes the model holds
    badShape,    \* a connection with a mismatched transform awaits the build
    sim,         \* the Simulator instance the name sim is bound to
    nsims,       \* number of Simulator instances built so far
    log,         \* the framework calls executed so far, in order
    transformA, transformB, transformC,
    loopIdx,     \* iteration counter of the running for loop
    cIn,         \* vector delivered to C.input by the last run
    dIn,         \* vector delivered to D.input by the last run
    refLines,    \* np.dot(Amat, Bmat).flatten()
    fbIn, fbOut  \* an evaluation of feedback: argument and result

vars == <<file, pos, parse, nb, pc, err, unit, Amat, Bmat, elements, probes,
          badShape, sim, nsims, log, transformA, transformB, transformC,
          loopIdx, cIn, dIn, refLines, fbIn, fbOut>>

(***************************************************************************)
(* Bounds of the model.                                                    *)
(***************************************************************************)
\* Largest D1, D2, D3 of the generalised operand shapes.
MaxDim == 2
\* Entries of the generalised operands lie in -MaxVal .. MaxVal.
MaxVal == 1
\* Components of the points feedback is evaluated at lie in -MaxX .. MaxX.
MaxX == 1

(***************************************************************************)
(* Program constants.                                                      *)
(***************************************************************************)
\* tau = 0.1 = TauNum / TauDen
TauNum == 1
TauDen == 10
w_max == 10
radius == 1
\* The literal entries of Amat and Bmat are hundredths.
LiteralUnit == 100

(***************************************************************************)
(* The notebook files: their top-level chunks.                             *)
(***************************************************************************)
NotebookKeys == {"metadata", "nbformat", "nbformat_minor", "worksheets"}

Object(name) == [kind |-> "object", keys |-> NotebookKeys, notebook |-> name]
Whitespace == [kind |-> "ws", keys |-> {}, notebook |-> "none"]

SquaringFile == <<Object("squaring"), Whitespace, Object("matmul")>>
OscillatorFile == <<Object("oscillator"), Whitespace>>
EnsembleArrayFile == <<Object("ensemble_array"), Whitespace>>

Files == {"squaring.ipynb", "controlled_oscillator.ipynb", "part_000"}

Chunks(f) ==
    CASE f = "squaring.ipynb" -> SquaringFile
      [] f = "controlled_oscillator.ipynb" -> OscillatorFile
      [] f = "part_000" -> EnsembleArrayFile

NotebooksOf(f) ==
    {Chunks(f)[n].notebook : n \in {m \in 1..Len(Chunks(f)) : Chunks(f)[m].kind = "object"}}

\* Index of the first chunk at or after p that is not white space
\* (Len + 1 when there is none).
RECURSIVE SkipWs(_, _)
SkipWs(chunks, p) ==
    IF p > Len(chunks) THEN Len(chunks) + 1
    ELSE IF chunks[p].kind = "ws" THEN SkipWs(chunks, p + 1)
    ELSE p

(***************************************************************************)
(* The notebooks: the statements of their code cells, in order.            *)
(***************************************************************************)
S(op, name) == [op |-> op, name |-> name]

EnsembleArrayProgram == <<
    S("Other", "import nengo, numpy"),
    S("Model", "model"),
    S("Node", "sin"),
    S("EnsembleArray", "A"),
    S("Ensemble", "B"),
    S("EnsembleArray", "C"),
    S("Connection", "sin->A"),
    S("Connection", "A->B"),
    S("Connection", "B->C"),
    S("Probe", "sin_probe"),
    S("Probe", "A_probe"),
    S("Probe", "B_probe"),
    S("Probe", "C_probe"),
    S("Simulator", "sim"),
    S("run", "sim"),
    S("Other", "import pyplot"),
    S("plot", "sin_probe"),
    S("plot", "A_probe"),
    S("plot", "B_probe"),
    S("plot", "C_probe") >>

SquaringProgram == <<
    S("Other", "import nengo"),
    S("Model", "model"),
    S("Ensemble", "A"),
    S("Ensemble", "B"),
    S("Other", "import numpy"),
    S("Node", "sin"),
    S("Connection", "sin->A"),
    S("Other", "def square"),
    S("Connection", "A->B"),
    S("Probe", "sin_probe"),
    S("Probe", "A_probe"),
    S("Probe", "B_probe"),
    S("Simulator", "sim"),
    S("run", "sim"),
    S("Other", "import pyplot"),
    S("plot", "A_probe"),
    S("plot", "B_probe"),
    S("plot", "sin_probe"),
    S("Other", "legend"),
    S("Other", "ylim") >>

MatMulProgram_StaleSim == <<
    S("Other", "import nengo, numpy"),
    S("Other", "N, Amat, Bmat"),
    S("Model", "model"),
    S("Other", "radius"),
    S("EnsembleArray", "A"),
    S("EnsembleArray", "B"),
    S("Node", "inputA"),
    S("Node", "inputB"),
    S("Connection", "inputA->A"),
    S("Connection", "inputB->B"),
    S("Probe", "A_probe"),
    S("Probe", "B_probe"),
    S("Other", "import pyplot"),
    S("Simulator", "sim"),
    S("run", "sim"),
    S("Other", "subplot, title"),
    S("plot", "A_probe"),
    S("Other", "subplot, title"),
    S("plot", "B_probe"),
    S("EnsembleArray", "C"),
    S("Other", "encoders"),
    S("ZerosAB", "transformA, transformB"),
    S("LoopAB", "transformA, transformB"),
    S("Other", "print"),
    S("Connection", "A->C"),
    S("Connection", "B->C"),
    S("Probe", "C_probe"),
    S("run", "sim"),
    S("Other", "title"),
    S("plot", "C_probe"),
    S("EnsembleArray", "D"),
    S("Other", "def product"),
    S("ZerosC", "transformC"),
    S("LoopC", "transformC"),
    S("Other", "print"),
    S("Output", "prod"),
    S("Connection", "prod->D"),
    S("Probe", "D_probe"),
    S("Simulator", "sim"),
    S("run", "sim"),
    S("Other", "title"),
    S("plot", "D_probe"),
    S("RefLines", "np.dot(Amat, Bmat)") >>

MatMulProgram == <<
    S("Other", "import nengo, numpy"),
    S("Other", "N, Amat, Bmat"),
    S("Model", "model"),
    S("Other", "radius"),
    S("EnsembleArray", "A"),
    S("EnsembleArray", "B"),
    S("Node", "inputA"),
    S("Node", "inputB"),
    S("Connection", "inputA->A"),
    S("Connection", "inputB->B"),
    S("Probe", "A_probe"),
    S("Probe", "B_probe"),
    S("Other", "import pyplot"),
    S("Simulator", "sim"),
    S("run", "sim"),
    S("Other", "subplot, title"),
    S("plot", "A_probe"),
    S("Other", "subplot, title"),
    S("plot", "B_probe"),
    S("EnsembleArray", "C"),
    S("Other", "encoders"),
    S("ZerosAB", "transformA, transformB"),
    S("LoopAB", "transformA, transformB"),
    S("Other", "print"),
    S("Connection", "A->C"),
    S("Connection", "B->C"),
    S("Probe", "C_probe"),
    S("Simulator", "sim"),
    S("run", "sim"),
    S("Other", "title"),
    S("plot", "C_probe"),
    S("EnsembleArray", "D"),
    S("Other", "def product"),
    S("ZerosC", "transformC"),
    S("LoopC", "transformC"),
    S("Other", "print"),
    S("Output", "prod"),
    S("Connection", "prod->D"),
    S("Probe", "D_probe"),
    S("Simulator", "sim"),
    S("run", "sim"),
    S("Other", "title"),
    S("plot", "D_probe"),
    S("RefLines", "np.dot(Amat, Bmat)") >>

OscillatorProgram_LateProbe == <<
    S("Other", "import nengo"),
    S("Other", "tau, w_max"),
    S("Model", "model"),
    S("Ensemble", "oscillator"),
    S("Other", "def feedback"),
    S("Connection", "oscillator->oscillator"),
    S("Ensemble", "frequency"),
    S("Connection", "frequency->oscillator"),
    S("Other", "import piecewise"),
    S("Node", "initial"),
    S("Connection", "initial->oscillator"),
    S("Node", "input_frequency"),
    S("Connection", "input_frequency->frequency"),
    S("Simulator", "sim"),
    S("Probe", "oscillator_probe"),
    S("run", "sim"),
    S("Other", "import pyplot"),
    S("plot", "oscillator_probe"),
    S("Other", "xlabel"),
    S("Other", "legend") >>

OscillatorProgram == <<
    S("Other", "import nengo"),
    S("Other", "tau, w_max"),
    S("Model", "model"),
    S("Ensemble", "oscillator"),
    S("Other", "def feedback"),
    S("Connection", "oscillator->oscillator"),
    S("Ensemble", "frequency"),
    S("Connection", "frequency->oscillator"),
    S("Other", "import piecewise"),
    S("Node", "initial"),
    S("Connection", "initial->oscillator"),
    S("Node", "input_frequency"),
    S("Connection", "input_frequency->frequency"),
    S("Probe", "oscillator_probe"),
    S("Simulator", "sim"),
    S("run", "sim"),
    S("Other", "import pyplot"),
    S("plot", "oscillator_probe"),
    S("Other", "xlabel"),
    S("Other", "legend") >>

Program(n) ==
    CASE n = "ensemble_array" -> EnsembleArrayProgram
      [] n = "squaring" -> SquaringProgram
      [] n = "matmul" -> MatMulProgram
      [] n = "oscillator" -> OscillatorProgram

\* The calls that construct a graph element.
ConstructOps == {"Model", "Node", "Ensemble", "EnsembleArray", "Connection",
                 "Output", "Probe"}

(***************************************************************************)
(* Matrices and vectors, indexed from 0 as in the source.                  *)
(***************************************************************************)
Rows(M) == Cardinality(DOMAIN M)
Cols(M) == Cardinality(DOMAIN M[0])
Size(M) == Rows(M) * Cols(M)

Zeros(r, c) == [a \in 0..(r - 1) |-> [b \in 0..(c - 1) |-> 0]]

\* M.ravel() / M.flatten(): row-major flattening.
Ravel(M) == [n \in 0..(Size(M) - 1) |-> M[n \div Cols(M)][n % Cols(M)]]

RECURSIVE SumTo(_, _)
SumTo(f, n) == IF n < 0 THEN 0 ELSE f[n] + SumTo(f, n - 1)

\* The transform T applied to the vector v.
MatVec(T, v) ==
    [r \in DOMAIN T |->
        SumTo([c \in DOMAIN T[r] |-> T[r][c] * v[c]], Cols(T) - 1)]

VecAdd(u, v) == [n \in DOMAIN u |-> u[n] + v[n]]

\* np.dot(A, B)
Dot(A, B) ==
    [i \in DOMAIN A |-> [k \in DOMAIN B[0] |->
        SumTo([j \in DOMAIN B |-> A[i][j] * B[j][k]], Rows(B) - 1)]]

NoVec == [n \in {} |-> 0]
NoMat == Zeros(1, 1)

(***************************************************************************)
(* The matrix-multiplication notebook.                                     *)
(***************************************************************************)
LiteralAmat == [r \in 0..0 |-> [c \in 0..1 |-> IF c = 0 THEN 50 ELSE -50]]
LiteralBmat ==
    [r \in 0..1 |-> [c \in 0..1 |->
        CASE r = 0 /\ c = 0 -> 58
          [] r = 0 /\ c = 1 -> -100
          [] r = 1 /\ c = 0 -> 70
          [] r = 1 /\ c = 1 -> 10]]

\* Generalised operands: the entries cycle through -MaxVal .. MaxVal in
\* row-major order, starting at an offset.
NVals == 2 * MaxVal + 1
Pattern(r, c, off) ==
    [a \in 0..(r - 1) |-> [b \in 0..(c - 1) |->
        ((off + a * c + b) % NVals) - MaxVal]]

\* Number of ensembles of C, and C.dimensions (two values per ensemble).
CEnsembles(A, B) == Size(A) * Cols(B)
CDimensions(A, B) == 2 * CEnsembles(A, B)
\* D.dimensions
DDimensions(A, B) == Rows(A) * Cols(B)

\* The i, j, k of iteration n of the nested loops (i outermost, k innermost).
LoopI(n, A, B) == n \div (Cols(A) * Cols(B))
LoopJ(n, A, B) == (n \div Cols(B)) % Cols(A)
LoopK(n, A, B) == n % Cols(B)

CIndex_SwappedStride(i, j, k, A, B) == j + k * Cols(B) + i * Size(B)

\* tmp: the index in C of the pair (A[i][j], B[j][k]).
CIndex(i, j, k, A, B) == j + k * Cols(A) + i * Size(B)

InRange(M, r, c) == r \in DOMAIN M /\ c \in DOMAIN M[r]
SetOne(M, r, c) == [M EXCEPT ![r][c] = 1]

product(x0, x1) == x0 * x1

\* The output "product" of C: one value per ensemble.
ProductOutput(c) ==
    [n \in 0..((Cardinality(DOMAIN c) \div 2) - 1) |-> product(c[2 * n], c[2 * n + 1])]

\* A connection's transform must map the source's dimensions to the target's.
ShapeOK(name, tA, tB, tC, A, B) ==
    CASE name = "A->C" -> Rows(tA) = CDimensions(A, B) /\ Cols(tA) = Size(A)
      [] name = "B->C" -> Rows(tB) = CDimensions(A, B) /\ Cols(tB) = Size(B)
      [] name = "prod->D" -> Rows(tC) = DDimensions(A, B) /\ Cols(tC) = CEnsembles(A, B)
      [] OTHER -> TRUE

(***************************************************************************)
(* The controlled oscillator.                                              *)
(***************************************************************************)
Points == {<<x0, x1, w>> : x0 \in -MaxX..MaxX, x1 \in -MaxX..MaxX, w \in -MaxX..MaxX}

\* feedback(x), times TauDen.
feedback(x) ==
    << TauDen * x[1] + x[3] * w_max * TauNum * x[2],
       TauDen * x[2] - x[3] * w_max * TauNum * x[1],
       0 >>

(***************************************************************************)
(* Initial states.                                                         *)
(***************************************************************************)
NoSim == [id |-> 0, probes |-> {}, elements |-> {}, ran |-> FALSE]

Operands ==
    {[unit |-> LiteralUnit, A |-> LiteralAmat, B |-> LiteralBmat]}
    \cup
    {[unit |-> 1, A |-> Pattern(d1, d2, offA), B |-> Pattern(d2, d3, offB)] :
        d1 \in 1..MaxDim, d2 \in 1..MaxDim, d3 \in 1..MaxDim,
        offA \in 0..(NVals - 1), offB \in 0..(NVals - 1)}

Init ==
    /\ file \in Files
    /\ nb \in NotebooksOf(file)
    /\ pos = 1
    /\ parse = "start"
    /\ pc = 1
    /\ err = "none"
    /\ \E o \in (IF nb = "matmul" THEN Operands
                 ELSE {[unit |-> 1, A |-> NoMat, B |-> NoMat]}) :
          unit = o.unit /\ Amat = o.A /\ Bmat = o.B
    /\ elements = {}
    /\ probes = {}
    /\ badShape = FALSE
    /\ sim = NoSim
    /\ nsims = 0
    /\ log = <<>>
    /\ transformA = NoMat
    /\ transformB = NoMat
    /\ transformC = NoMat
    /\ loopIdx = 0
    /\ cIn = NoVec
    /\ dIn = NoVec
    /\ refLines = NoVec
    /\ fbIn = <<>>
    /\ fbOut = <<>>

(***************************************************************************)
(* Execution.                                                              *)
(***************************************************************************)
Loaded == parse \in {"ok", "extra_data"}
Running == Loaded /\ err = "none" /\ pc <= Len(Program(nb))
Stmt == Program(nb)[pc]

\* The record of a framework call: the call, and the Simulator instance
\* that sim is bound to when the call is made (for the call that builds a
\* Simulator: the instance it builds).
Event(stmt) ==
    [op |-> stmt.op, name |-> stmt.name, sim |-> sim.id,
     known |-> stmt.name \in sim.probes, ran |-> sim.ran]

\* json.loads: decode the first value of the file.
DecodeDocument ==
    /\ parse = "start"
    /\ LET p == SkipWs(Chunks(file), pos) IN
          /\ p <= Len(Chunks(file))
          /\ Chunks(file)[p].kind = "object"
          /\ pos' = p + 1
    /\ parse' = "decoded"
    /\ UNCHANGED <<file, nb, pc, err, unit, Amat, Bmat, elements, probes,
                   badShape, sim, nsims, log, transformA, transformB,
                   transformC, loopIdx, cIn, dIn, refLines, fbIn, fbOut>>

\* json.loads: anything but white space after the first value is an error.
CheckEnd ==
    /\ parse = "decoded"
    /\ LET q == SkipWs(Chunks(file), pos) IN
          /\ pos' = q
          /\ parse' = IF q > Len(Chunks(file)) THEN "ok" ELSE "extra_data"
    /\ UNCHANGED <<file, nb, pc, err, unit, Amat, Bmat, elements, probes,
                   badShape, sim, nsims, log, transformA, transformB,
                   transformC, loopIdx, cIn, dIn, refLines, fbIn, fbOut>>

\* A statement that makes no framework call: import, def, assignment, print,
\* figure decoration.
Other ==
    /\ Running
    /\ Stmt.op = "Other"
    /\ pc' = pc + 1
    /\ UNCHANGED <<file, pos, parse, nb, err, unit, Amat, Bmat, elements,
                   probes, badShape, sim, nsims, log, transformA, transformB,
                   transformC, loopIdx, cIn, dIn, refLines, fbIn, fbOut>>

\* nengo.Model, Node, Ensemble, EnsembleArray, Connection, add_output.
Construct ==
    /\ Running
    /\ Stmt.op \in ConstructOps \ {"Probe"}
    /\ elements' = elements \cup {Stmt.name}
    /\ badShape' = (badShape \/
                    (Stmt.op = "Connection" /\
                     ~ShapeOK(Stmt.name, transformA, transformB, transformC, Amat, Bmat)))
    /\ log' = Append(log, Event(Stmt))
    /\ pc' = pc + 1
    /\ UNCHANGED <<file, pos, parse, nb, err, unit, Amat, Bmat, probes, sim,
                   nsims, transformA, transformB, transformC, loopIdx, cIn,
                   dIn, refLines, fbIn, fbOut>>

\* nengo.Connection rejects a transform of the wrong shape.
ConnectionShapeError ==
    /\ Running
    /\ Stmt.op = "Connection"
    /\ ~ShapeOK(Stmt.name, transformA, transformB, transformC, Amat, Bmat)
    /\ err' = "ValueError"
    /\ UNCHANGED <<file, pos, parse, nb, pc, unit, Amat, Bmat, elements,
                   probes, badShape, sim, nsims, log, transformA, transformB,
                   transformC, loopIdx, cIn, dIn, refLines, fbIn, fbOut>>

\* nengo.Probe
AddProbe ==
    /\ Running
    /\ Stmt.op = "Probe"
    /\ probes' = probes \cup {Stmt.name}
    /\ log' = Append(log, Event(Stmt))
    /\ pc' = pc + 1
    /\ UNCHANGED <<file, pos, parse, nb, err, unit, Amat, Bmat, elements,
                   badShape, sim, nsims, transformA, transformB, transformC,
                   loopIdx, cIn, dIn, refLines, fbIn, fbOut>>

\* sim = nengo.Simulator(model): the instance is built from the model as it is.
BuildSim ==
    /\ Running
    /\ Stmt.op = "Simulator"
    /\ ~badShape
    /\ nsims' = nsims + 1
    /\ sim' = [id |-> nsims + 1, probes |-> probes, elements |-> elements,
               ran |-> FALSE]
    /\ log' = Append(log, [Event(Stmt) EXCEPT !.sim = nsims + 1])
    /\ pc' = pc + 1
    /\ UNCHANGED <<file, pos, parse, nb, err, unit, Amat, Bmat, elements,
                   probes, badShape, transformA, transformB, transformC,
                   loopIdx, cIn, dIn, refLines, fbIn, fbOut>>

\* The build fails on a connection whose transform has the wrong shape.
BuildSimShapeError ==
    /\ Running
    /\ Stmt.op = "Simulator"
    /\ badShape
    /\ err' = "ValueError"
    /\ UNCHANGED <<file, pos, parse, nb, pc, unit, Amat, Bmat, elements,
                   probes, badShape, sim, nsims, log, transformA, transformB,
                   transformC, loopIdx, cIn, dIn, refLines, fbIn, fbOut>>

\* sim.run(duration), every ensemble passing its input through exactly.
RunSim ==
    /\ Running
    /\ Stmt.op = "run"
    /\ log' = Append(log, Event(Stmt))
    /\ IF sim.id = 0
       THEN /\ err' = "NameError"
            /\ UNCHANGED <<pc, sim, cIn, dIn, fbIn, fbOut>>
       ELSE /\ sim' = [sim EXCEPT !.ran = TRUE]
            /\ pc' = pc + 1
            /\ err' = err
            /\ LET hasC == nb = "matmul" /\ {"A->C", "B->C"} \subseteq sim.elements
                   hasD == hasC /\ {"prod", "prod->D"} \subseteq sim.elements
                   c == VecAdd(MatVec(transformA, Ravel(Amat)),
                               MatVec(transformB, Ravel(Bmat)))
               IN  /\ cIn' = IF hasC THEN c ELSE cIn
                   /\ dIn' = IF hasD THEN MatVec(transformC, ProductOutput(c)) ELSE dIn
            /\ IF nb = "oscillator" /\ "oscillator->oscillator" \in sim.elements
               THEN \E x \in Points : fbIn' = x /\ fbOut' = feedback(x)
               ELSE UNCHANGED <<fbIn, fbOut>>
    /\ UNCHANGED <<file, pos, parse, nb, unit, Amat, Bmat, elements, probes,
                   badShape, nsims, transformA, transformB, transformC,
                   loopIdx, refLines>>

\* plt.plot(sim.trange(), sim.data[p])
PlotRead ==
    /\ Running
    /\ Stmt.op = "plot"
    /\ log' = Append(log, Event(Stmt))
    /\ err' = IF sim.id = 0 THEN "NameError"
              ELSE IF Stmt.name \notin sim.probes THEN "KeyError"
              ELSE err
    /\ pc' = IF sim.id # 0 /\ Stmt.name \in sim.probes THEN pc + 1 ELSE pc
    /\ UNCHANGED <<file, pos, parse, nb, unit, Amat, Bmat, elements, probes,
                   badShape, sim, nsims, transformA, transformB, transformC,
                   loopIdx, cIn, dIn, refLines, fbIn, fbOut>>

\* transformA = np.zeros(...); transformB = np.zeros(...)
ZerosAB ==
    /\ Running
    /\ Stmt.op = "ZerosAB"
    /\ transformA' = Zeros(CDimensions(Amat, Bmat), Size(Amat))
    /\ transformB' = Zeros(CDimensions(Amat, Bmat), Size(Bmat))
    /\ loopIdx' = 0
    /\ pc' = pc + 1
    /\ UNCHANGED <<file, pos, parse, nb, err, unit, Amat, Bmat, elements,
                   probes, badShape, sim, nsims, log, transformC, cIn, dIn,
                   refLines, fbIn, fbOut>>

\* One iteration of the i, j, k loops, or the exit of the loops.
LoopAB ==
    /\ Running
    /\ Stmt.op = "LoopAB"
    /\ IF loopIdx < Rows(Amat) * Cols(Amat) * Cols(Bmat)
       THEN LET i == LoopI(loopIdx, Amat, Bmat)
                j == LoopJ(loopIdx, Amat, Bmat)
                k == LoopK(loopIdx, Amat, Bmat)
                tmp == CIndex(i, j, k, Amat, Bmat)
                colA == j + i * Cols(Amat)
                colB == k + j * Cols(Bmat)
            IN  IF InRange(transformA, tmp * 2, colA) /\
                   InRange(transformB, tmp * 2 + 1, colB)
                THEN /\ transformA' = SetOne(transformA, tmp * 2, colA)
                     /\ transformB' = SetOne(transformB, tmp * 2 + 1, colB)
                     /\ loopIdx' = loopIdx + 1
                     /\ UNCHANGED <<pc, err>>
                ELSE /\ err' = "IndexError"
                     /\ UNCHANGED <<pc, loopIdx, transformA, transformB>>
       ELSE /\ pc' = pc + 1
            /\ loopIdx' = 0
            /\ UNCHANGED <<err, transformA, transformB>>
    /\ UNCHANGED <<file, pos, parse, nb, unit, Amat, Bmat, elements, probes,
                   badShape, sim, nsims, log, transformC, cIn, dIn, refLines,
                   fbIn, fbOut>>

\* transformC = np.zeros((D.dimensions, Bmat.size))
ZerosC ==
    /\ Running
    /\ Stmt.op = "ZerosC"
    /\ transformC' = Zeros(DDimensions(Amat, Bmat), Size(Bmat))
    /\ loopIdx' = 0
    /\ pc' = pc + 1
    /\ UNCHANGED <<file, pos, parse, nb, err, unit, Amat, Bmat, elements,
                   probes, badShape, sim, nsims, log, transformA, transformB,
                   cIn, dIn, refLines, fbIn, fbOut>>

\* One iteration of "for i in range(Bmat.size)", or the exit of the loop.
LoopC ==
    /\ Running
    /\ Stmt.op = "LoopC"
    /\ IF loopIdx < Size(Bmat)
       THEN IF InRange(transformC, loopIdx \div Rows(Bmat), loopIdx)
            THEN /\ transformC' = SetOne(transformC, loopIdx \div Rows(Bmat), loopIdx)
                 /\ loopIdx' = loopIdx + 1
                 /\ UNCHANGED <<pc, err>>
            ELSE /\ err' = "IndexError"
                 /\ UNCHANGED <<pc, loopIdx, transformC>>
       ELSE /\ pc' = pc + 1
            /\ loopIdx' = 0
            /\ UNCHANGED <<err, transformC>>
    /\ UNCHANGED <<file, pos, parse, nb, unit, Amat, Bmat, elements, probes,
                   badShape, sim, nsims, log, transformA, transformB, cIn,
                   dIn, refLines, fbIn, fbOut>>

\* for d in np.dot(Amat, Bmat).flatten(): plt.axhline(d)
RefLines ==
    /\ Running
    /\ Stmt.op = "RefLines"
    /\ refLines' = Ravel(Dot(Amat, Bmat))
    /\ pc' = pc + 1
    /\ UNCHANGED <<file, pos, parse, nb, err, unit, Amat, Bmat, elements,
                   probes, badShape, sim, nsims, log, transformA, transformB,
                   transformC, loopIdx, cIn, dIn, fbIn, fbOut>>

Next ==
    \/ DecodeDocument
    \/ CheckEnd
    \/ Other
    \/ Construct
    \/ ConnectionShapeError
    \/ AddProbe
    \/ BuildSim
    \/ BuildSimShapeError
    \/ RunSim
    \/ PlotRead
    \/ ZerosAB
    \/ LoopAB
    \/ ZerosC
    \/ LoopC
    \/ RefLines

Spec == Init /\ [][Next]_vars

Done == Loaded /\ err = "none" /\ pc > Len(Program(nb))

TypeOK ==
    /\ file \in Files
    /\ nb \in NotebooksOf(file)
    /\ parse \in {"start", "decoded", "ok", "extra_data"}
    /\ pc \in 1..(Len(Program(nb)) + 1)
    /\ err \in {"none", "ValueError", "NameError", "KeyError", "IndexError"}
    /\ sim.id \in 0..nsims

(***************************************************************************)
(* Properties.                                                             *)
(***************************************************************************)
\* Some statement before pc has the given op.
Executed(op) == \E p \in 1..(pc - 1) : Program(nb)[p].op = op

Stopped == Done \/ err # "none"

\* C1: in the matrix-multiplication notebook, once the notebook has stopped,
\* the vector delivered to D.input is the row-major flattening of the matrix
\* product Amat * Bmat, for every shape of the operands.
C1_DInputIsProduct ==
    (nb = "matmul" /\ Stopped) => dIn = Ravel(Dot(Amat, Bmat))

\* C2: every evaluation of feedback at (x0, x1, w) returns
\* (x0 - tau*w*w_max*x1, x1 + tau*w*w_max*x0, 0), here times TauDen.
C2_FeedbackAsDerived ==
    fbIn # <<>> =>
        fbOut = << TauDen * fbIn[1] - TauNum * fbIn[3] * w_max * fbIn[2],
                   TauDen * fbIn[2] + TauNum * fbIn[3] * w_max * fbIn[1],
                   0 >>

\* C3: every notebook file is exactly one JSON document with the keys
\* metadata, nbformat and worksheets, and nothing but white space after it.
C3_OneDocumentPerFile ==
    Loaded =>
        /\ parse = "ok"
        /\ Cardinality({n \in 1..Len(Chunks(file)) : Chunks(file)[n].kind = "object"}) = 1
        /\ \A n \in 1..Len(Chunks(file)) :
              Chunks(file)[n].kind = "object" =>
                  {"metadata", "nbformat", "worksheets"} \subseteq Chunks(file)[n].keys

\* The phase of a framework call: construct, build the simulator, run, plot.
Phase(op) ==
    CASE op \in ConstructOps -> 1
      [] op = "Simulator" -> 2
      [] op = "run" -> 3
      [] op = "plot" -> 4

\* C4 as stated: in every notebook the calls come in the order construct,
\* build and run the simulator, plot; in particular no graph-construction
\* call follows a sim.run.
C4_PhasesInOrder ==
    \A a, b \in DOMAIN log : a < b => Phase(log[a].op) <= Phase(log[b].op)

\* C4 as amended: in the ensemble-array, squaring and controlled-oscillator
\* notebooks the calls come in the order construct, build and run the
\* simulator, plot.  The matrix-multiplication notebook executes rounds of
\* that order one after another (three when it runs to the end): the only
\* step back is from a plot to the graph construction of the next round.
C4_PhasesInOrderPerRound ==
    /\ nb # "matmul" => C4_PhasesInOrder
    /\ \A a \in DOMAIN log : (a + 1) \in DOMAIN log =>
          \/ Phase(log[a].op) <= Phase(log[a + 1].op)
          \/ log[a].op = "plot" /\ log[a + 1].op \in ConstructOps
    /\ (nb = "matmul" /\ Done) => nsims = 3

\* A graph-construction call is executed after a sim.run of an earlier round.
C4_Witness ==
    /\ nb = "matmul"
    /\ Done
    /\ \E a, b \in DOMAIN log :
          a < b /\ log[a].op = "run" /\ log[b].op = "EnsembleArray"

\* C5: the index arithmetic of the transformA / transformB loops stays in
\* range, and once the loops are done: (i, j, k) -> j + k*D2 + i*D2*D3 is a
\* bijection onto the C ensembles 0 .. D1*D2*D3-1; row 2*idx of transformA
\* has its single 1 in column j + i*D2 and row 2*idx+1 of transformB its
\* single 1 in column k + j*D3; every other entry is 0; and a run delivers
\* A[i][j] and B[j][k] to the two values of ensemble idx.
C5_TransformsPairOperands ==
    nb = "matmul" =>
        LET D1 == Rows(Amat)
            D2 == Cols(Amat)
            D3 == Cols(Bmat)
            n == D1 * D2 * D3
            Triples == (0..(D1 - 1)) \X (0..(D2 - 1)) \X (0..(D3 - 1))
            idx(t) == t[2] + t[3] * D2 + t[1] * D2 * D3
        IN  /\ err # "IndexError"
            /\ Executed("LoopAB") =>
                  /\ \A t \in Triples : idx(t) \in 0..(n - 1)
                  /\ \A e \in 0..(n - 1) :
                        Cardinality({t \in Triples : idx(t) = e}) = 1
                  /\ DOMAIN transformA = 0..(2 * n - 1)
                  /\ DOMAIN transformB = 0..(2 * n - 1)
                  /\ \A t \in Triples :
                        /\ \A c \in 0..(D1 * D2 - 1) :
                              /\ transformA[2 * idx(t)][c] =
                                    (IF c = t[2] + t[1] * D2 THEN 1 ELSE 0)
                              /\ transformA[2 * idx(t) + 1][c] = 0
                        /\ \A c \in 0..(D2 * D3 - 1) :
                              /\ transformB[2 * idx(t) + 1][c] =
                                    (IF c = t[3] + t[2] * D3 THEN 1 ELSE 0)
                              /\ transformB[2 * idx(t)][c] = 0
                        /\ DOMAIN cIn # {} =>
                              /\ cIn[2 * idx(t)] = Amat[t[1]][t[2]]
                              /\ cIn[2 * idx(t) + 1] = Bmat[t[2]][t[3]]

\* A run has delivered the pairs to C for operands with D2 # D3 and D1 > 1.
C5_Witness ==
    /\ nb = "matmul"
    /\ Executed("LoopAB")
    /\ Rows(Amat) = 2 /\ Cols(Amat) = 1 /\ Cols(Bmat) = 2
    /\ DOMAIN cIn = 0..7

\* C6: with the notebook's own Amat and Bmat, every entry of Amat, of Bmat and
\* of Amat * Bmat lies strictly between -radius and radius.
C6_ValuesInsideRadius ==
    (nb = "matmul" /\ unit = LiteralUnit /\ {"inputA->A", "inputB->B"} \subseteq elements) =>
        /\ \A n \in DOMAIN Ravel(Amat) :
              -radius * unit < Ravel(Amat)[n] /\ Ravel(Amat)[n] < radius * unit
        /\ \A n \in DOMAIN Ravel(Bmat) :
              -radius * unit < Ravel(Bmat)[n] /\ Ravel(Bmat)[n] < radius * unit
        /\ \A n \in DOMAIN Ravel(Dot(Amat, Bmat)) :
              /\ -radius * unit * unit < Ravel(Dot(Amat, Bmat))[n]
              /\ Ravel(Dot(Amat, Bmat))[n] < radius * unit * unit

\* C7: every read sim.data[p] is made on a Simulator instance that was built
\* after the probe p was created and that has completed a run before the read.
C7_ReadsFollowProbeBuildRun ==
    \A n \in DOMAIN log :
        log[n].op = "plot" =>
            /\ log[n].known
            /\ log[n].ran
            /\ \E b \in 1..(n - 1) :
                  /\ log[b].op = "Simulator" /\ log[b].sim = log[n].sim
                  /\ \E a \in 1..(b - 1) :
                        log[a].op = "Probe" /\ log[a].name = log[n].name
                  /\ \E r \in (b + 1)..(n - 1) :
                        log[r].op = "run" /\ log[r].sim = log[n].sim

\* The third round of the matrix-multiplication notebook has read D_probe
\* from the third Simulator instance.
C7_Witness ==
    /\ nb = "matmul"
    /\ \E n \in DOMAIN log :
          log[n].op = "plot" /\ log[n].name = "D_probe" /\ log[n].sim = 3

====
